---------------------------- MODULE Spec2Model ----------------------------
(***************************************************************************)
(* A model of the snowflake card generator (sihil/christmas2024):          *)
(*   - the scene graph, PolygonGroup      (sketch_snowflake_card.py 34-63)  *)
(*   - the lattice sampler, triangular_grid                      (359-388)  *)
(*   - the spoke primitive, elongated_hexagon                    (330-354)  *)
(*   - the miter offsetter, geo.py create_offset_polygon           (48-85)  *)
(*   - the angle function, geo.py calculate_angle                  (11-45)  *)
(*   - the concentric fill, filled_polygon                       (248-264)  *)
(*   - the motif choice, draw_a_star                             (188-236)  *)
(*   - the two passes of draw over the grid points               (145-186)  *)
(*   - the dendrite generator, random_branch_config              (391-409)  *)
(* Each component has its own variables, initial condition and next-state  *)
(* relation; a component's specification keeps the others idle.            *)
(***************************************************************************)
EXTENDS Integers, Sequences, FiniteSets, TLC

VARIABLES
    heap,          \* the PolygonGroup objects created so far, by identity 1..Len(heap)
    last,          \* the most recent PolygonGroup call and what it returned or raised
    args,          \* triangular_grid: x, y, spacing, distance, angle_degrees
    accumulator,   \* triangular_grid: the points accepted so far, in order
    queue,         \* triangular_grid: the points still to expand
    current,       \* triangular_grid: (current_x, current_y)
    i,             \* triangular_grid: the direction index of the for loop
    pc,            \* triangular_grid: where the call stands
    hexCall,       \* elongated_hexagon: the arguments and what the call did
    offsetCall,    \* create_offset_polygon: the polygon, the loop and new_coords
    angleCall,     \* calculate_angle: the arguments and the value returned
    fillCall,      \* filled_polygon: the group, the loop and how the call ended
    drawCall,      \* draw: the two passes over the grid points
    branchCall,    \* random_branch_config: the draws and the configs yielded
    starCall       \* draw_a_star: the draws and the elongated_hexagon calls

treeVars == <<heap, last>>
gridVars == <<args, accumulator, queue, current, i, pc>>
callVars == <<fillCall, drawCall, branchCall, starCall>>
geoVars == <<hexCall, offsetCall, angleCall, callVars>>

vars == <<heap, last, args, accumulator, queue, current, i, pc,
          hexCall, offsetCall, angleCall,
          fillCall, drawCall, branchCall, starCall>>

(***************************************************************************)
(* Bounds of the scene-graph model.                                        *)
(***************************************************************************)
\* The weight of the heap: a group counts two, a leaf or a child
\* registration one.
MaxSize == 9

\* Group names: the root of draw() and the groups the fill routines create.
GroupNames == {"filled_polygon"}
\* Registration names used by add_group callers.
ChildNames == {"sector_0", "star_centre"}
\* What the callers store: filled_polygon's outline (layer 1) and draw()'s
\* motifs (layer 2).
PolygonLeaves == {[layer |-> 1, geometry |-> "Polygon", name |-> "outer_polygon"]}
GeomLeaves == {[layer |-> 2, geometry |-> "MultiLineString", name |-> "star1"]}

Range(s) == {s[k] : k \in 1..Len(s)}

RECURSIVE SumLen(_, _)
SumLen(h, k) == IF k = 0 THEN 0 ELSE Len(h[k].polygons) + SumLen(h, k - 1)

\* All leaves held by all groups (bounds the model only).
TotalLeaves(h) == SumLen(h, Len(h))

RECURSIVE SumLinks(_, _)
SumLinks(h, k) == IF k = 0 THEN 0 ELSE Len(h[k].groups) + SumLinks(h, k - 1)

\* All child registrations of all groups (bounds the model only).
TotalLinks(h) == SumLinks(h, Len(h))

\* Room for one more object, leaf or registration (bounds the model only).
Room(h) == 2 * Len(h) + TotalLeaves(h) + TotalLinks(h) < MaxSize

(***************************************************************************)
(* PolygonGroup                                                            *)
(***************************************************************************)
\* PolygonGroup.__init__: polygons = [], groups = {}, name = name.
\* The dict `groups` keeps insertion order; it is a sequence of (key, group).
PolygonGroup(name) == [name |-> name, polygons |-> <<>>, groups |-> <<>>]

PolygonStoreEntry(layer, geometry, name) ==
    [layer |-> layer, geometry |-> geometry, name |-> name]

\* `name in self.groups`
HasKey(grp, name) == \E k \in 1..Len(grp.groups) : grp.groups[k].key = name

\* group.groups.values(), in insertion order.
Values(grp) == [k \in 1..Len(grp.groups) |-> grp.groups[k].group]

\* The groups reachable from g through child links in one or more steps.
RECURSIVE ReachFrom(_, _, _)
ReachFrom(h, S, n) ==
    IF n = 0 THEN S
    ELSE ReachFrom(h, S \cup UNION {Range(Values(h[c])) : c \in S}, n - 1)

Descendants(h, g) == ReachFrom(h, Range(Values(h[g])), Len(h))

\* The recursion of all_geometries from g never returns: some group on the way
\* down is its own descendant.
Diverges(h, g) == \E c \in {g} \cup Descendants(h, g) : c \in Descendants(h, c)

\* f"{self.name}/{entry.name}" applied to each entry of a child's flattening.
Rename(prefix, entries) ==
    [k \in 1..Len(entries) |->
        PolygonStoreEntry(entries[k].layer, entries[k].geometry,
                          prefix \o "/" \o entries[k].name)]

RECURSIVE all_geometries(_, _)
RECURSIVE ChildGeometries(_, _, _)
\* The comprehension over self.groups.values(), from the k-th child on.
ChildGeometries(h, g, k) ==
    IF k > Len(h[g].groups) THEN <<>>
    ELSE Rename(h[g].name, all_geometries(h, h[g].groups[k].group))
            \o ChildGeometries(h, g, k + 1)

\* all_geometries as it would be with the children's entries placed before the
\* group's own.
all_geometries_children_first(h, g) == ChildGeometries(h, g, 1) \o h[g].polygons

\* PolygonGroup.all_geometries, for a group whose recursion returns.
all_geometries(h, g) == h[g].polygons \o ChildGeometries(h, g, 1)

NoCall == [op |-> "none"]

\* No triangular_grid call is under way.
GridIdle ==
    /\ args = <<>>
    /\ accumulator = <<>>
    /\ queue = <<>>
    /\ current = <<>>
    /\ i = 0
    /\ pc = "idle"

\* No call of a geometry function is under way.
\* No call of filled_polygon, draw, random_branch_config or draw_a_star is
\* under way.
CallsIdle ==
    /\ fillCall = NoCall
    /\ drawCall = NoCall
    /\ branchCall = NoCall
    /\ starCall = NoCall

GeoIdle ==
    /\ hexCall = NoCall
    /\ offsetCall = NoCall
    /\ angleCall = NoCall
    /\ CallsIdle

TreeInit ==
    /\ heap = <<PolygonGroup("snowflake card")>>
    /\ last = NoCall
    /\ GridIdle
    /\ GeoIdle

\* g = PolygonGroup(name)
NewGroup(name) ==
    /\ Room(heap)
    /\ heap' = Append(heap, PolygonGroup(name))
    /\ last' = [op |-> "PolygonGroup"]

\* g.add_polygon(polygon, layer, name)
add_polygon(g, polygon, layer, name) ==
    /\ Room(heap)
    /\ heap' = [heap EXCEPT ![g].polygons =
                    Append(@, PolygonStoreEntry(layer, polygon, name))]
    /\ last' = [op |-> "add_polygon"]

\* g.add_geom(geometry, layer, name)
add_geom(g, geometry, layer, name) ==
    /\ Room(heap)
    /\ heap' = [heap EXCEPT ![g].polygons =
                    Append(@, PolygonStoreEntry(layer, geometry, name))]
    /\ last' = [op |-> "add_geom"]

\* add_group as it would be without the membership test: the dict entry is
\* overwritten in place.
add_group_overwrite(self, group, name) ==
    /\ HasKey(heap[self], name) \/ Room(heap)
    /\ heap' = [heap EXCEPT ![self].groups =
                    IF HasKey(heap[self], name)
                    THEN [k \in 1..Len(@) |->
                            IF @[k].key = name
                            THEN [key |-> name, group |-> group] ELSE @[k]]
                    ELSE Append(@, [key |-> name, group |-> group])]
    /\ last' = [op |-> "add_group", target |-> self, group |-> group,
                name |-> name, result |-> "ok"]

\* self.add_group(group, name): any existing group object may be passed, the
\* only test is on the name.
add_group(self, group, name) ==
    IF HasKey(heap[self], name)
    THEN /\ heap' = heap
         /\ last' = [op |-> "add_group", target |-> self, group |-> group,
                     name |-> name, result |-> "ValueError"]
    ELSE /\ Room(heap)
         /\ heap' = [heap EXCEPT ![self].groups =
                        Append(@, [key |-> name, group |-> group])]
         /\ last' = [op |-> "add_group", target |-> self, group |-> group,
                     name |-> name, result |-> "ok"]

\* g.all_geometries(): the flattened entries, or the recursion never returning
\* (Python ends it with RecursionError).
AllGeometriesCall(g) ==
    /\ heap' = heap
    /\ last' = [op |-> "all_geometries", target |-> g,
                result |-> IF Diverges(heap, g) THEN "RecursionError"
                           ELSE all_geometries(heap, g)]

Groups == 1..Len(heap)

TreeNext ==
    \/ \E name \in GroupNames : NewGroup(name) /\ UNCHANGED <<gridVars, geoVars>>
    \/ \E g \in Groups, e \in PolygonLeaves :
            add_polygon(g, e.geometry, e.layer, e.name) /\ UNCHANGED <<gridVars, geoVars>>
    \/ \E g \in Groups, e \in GeomLeaves :
            add_geom(g, e.geometry, e.layer, e.name) /\ UNCHANGED <<gridVars, geoVars>>
    \/ \E self \in Groups, group \in Groups, name \in ChildNames :
            add_group(self, group, name) /\ UNCHANGED <<gridVars, geoVars>>
    \/ \E g \in Groups : AllGeometriesCall(g) /\ UNCHANGED <<gridVars, geoVars>>

TreeSpec == TreeInit /\ [][TreeNext]_vars

(***************************************************************************)
(* Properties of the scene graph.                                          *)
(***************************************************************************)
\* How many times group c is registered as a child by the groups of S.
Registrations(h, S, c) ==
    Cardinality({pk \in {<<q, k>> : q \in S, k \in 1..MaxSize} :
                    /\ pk[2] <= Len(h[pk[1]].groups)
                    /\ h[pk[1]].groups[pk[2]].group = c})

\* The groups at and below g form a tree: no group below g is its own
\* descendant and each is registered exactly once.
IsTree(h, g) ==
    /\ ~Diverges(h, g)
    /\ \A c \in Descendants(h, g) :
            Registrations(h, {g} \cup Descendants(h, g), c) = 1

\* One add_group step, as the contract describes it.
C1_AddGroupStep ==
    last'.op = "add_group" =>
        LET s == last'.target
            n == last'.name
        IN  IF HasKey(heap[s], n)
            THEN /\ last'.result = "ValueError"
                 /\ heap' = heap
            ELSE /\ last'.result = "ok"
                 /\ heap'[s].groups =
                        Append(heap[s].groups, [key |-> n, group |-> last'.group])
                 /\ heap'[s].polygons = heap[s].polygons
                 /\ \A q \in Groups \ {s} : heap'[q] = heap[q]

\* C1: add_group under a name the parent already uses raises and leaves the
\* parent's child groups and leaves as they were; under a name the parent does
\* not use yet it registers the group, whatever names other parents use.
C1_DuplicateNameRejected == [][C1_AddGroupStep]_vars

\* C1 witness: a rejected add_group, the original child still registered, while
\* another parent holds a child under the same name.
C1_Witness ==
    /\ last.op = "add_group"
    /\ last.result = "ValueError"
    /\ \E k \in 1..Len(heap[last.target].groups) :
            /\ heap[last.target].groups[k].key = last.name
            /\ heap[last.target].groups[k].group # last.group
    /\ \E q \in Groups \ {last.target} : HasKey(heap[q], last.name)

RECURSIVE QualifiedNames(_, _, _)
RECURSIVE QualifiedChildNames(_, _, _, _)
QualifiedChildNames(h, g, path, k) ==
    IF k > Len(h[g].groups) THEN <<>>
    ELSE QualifiedNames(h, h[g].groups[k].group, path)
            \o QualifiedChildNames(h, g, path, k + 1)

\* The names the contract asks of flatten: the names of the groups from the
\* root down to the owner, then the leaf's name, joined with "/".
QualifiedNames(h, g, path) ==
    [k \in 1..Len(h[g].polygons) |-> path \o h[g].name \o "/" \o h[g].polygons[k].name]
        \o QualifiedChildNames(h, g, path \o h[g].name \o "/", 1)

\* C2: flatten reports every leaf under its complete ancestor path, the owning
\* group and the root included.
C2_QualifiedNames ==
    (last.op = "all_geometries" /\ IsTree(heap, last.target)) =>
        [k \in 1..Len(last.result) |-> last.result[k].name]
            = QualifiedNames(heap, last.target, "")

RECURSIVE PreOrder(_, _)
RECURSIVE PreOrderChildren(_, _, _)
PreOrderChildren(h, g, k) ==
    IF k > Len(h[g].groups) THEN <<>>
    ELSE PreOrder(h, h[g].groups[k].group) \o PreOrderChildren(h, g, k + 1)

\* The groups at and below g in pre-order: g, then each child's subtree in the
\* order the children were registered.
PreOrder(h, g) == <<g>> \o PreOrderChildren(h, g, 1)

RECURSIVE LeavesInOrder(_, _, _)
\* The (layer, geometry) of the leaves of the groups gs[k..], group by group.
LeavesInOrder(h, gs, k) ==
    IF k > Len(gs) THEN <<>>
    ELSE [j \in 1..Len(h[gs[k]].polygons) |->
            <<h[gs[k]].polygons[j].layer, h[gs[k]].polygons[j].geometry>>]
         \o LeavesInOrder(h, gs, k + 1)

RECURSIVE CountLeaves(_, _)
CountLeaves(h, S) ==
    IF S = {} THEN 0
    ELSE LET c == CHOOSE c \in S : TRUE
         IN  Len(h[c].polygons) + CountLeaves(h, S \ {c})

\* C3: on a tree, flatten returns one entry per leaf, with the layer and
\* geometry it was added with, in pre-order: a group's own leaves in the order
\* added, then each child group's entries in the order the children were added.
C3_FlattenPreOrder ==
    (last.op = "all_geometries" /\ IsTree(heap, last.target)) =>
        /\ Len(last.result) =
                CountLeaves(heap, {last.target} \cup Descendants(heap, last.target))
        /\ [k \in 1..Len(last.result) |->
                <<last.result[k].layer, last.result[k].geometry>>]
             = LeavesInOrder(heap, PreOrder(heap, last.target), 1)

\* C3 witness: the root flattened, holding a leaf of its own and a child group
\* that holds a leaf.
C3_Witness ==
    /\ last.op = "all_geometries"
    /\ last.target = 1
    /\ IsTree(heap, 1)
    /\ Len(heap[1].polygons) >= 1
    /\ \E c \in Descendants(heap, 1) : Len(heap[c].polygons) >= 1
    /\ Len(last.result) >= 2

\* C4: whatever add_group calls pass the name test, no group is its own
\* descendant, none is registered twice, and flatten returns.
C4_GroupsFormTree ==
    /\ \A g \in Groups :
            /\ g \notin Descendants(heap, g)
            /\ Registrations(heap, Groups, g) <= 1
    /\ last.op = "all_geometries" => last.result # "RecursionError"

(***************************************************************************)
(* Numbers of the lattice.  Lengths are in units of the deduplication      *)
(* tolerance (0.00001).  With angle_degrees a multiple of 30 every         *)
(* coordinate the loop computes is (r + i*sqrt(3))/2 for integers r, i,    *)
(* written <<r, i>>; these are added exactly.  What floating point adds to *)
(* this is rounding far below the tolerance, which can decide a comparison *)
(* only when its two sides are equal (see line_length_within).             *)
(***************************************************************************)
\* abs_tol of math.isclose, in the unit of the model.
AbsTol == 1
MaxSpacing == 3
MaxDistance == 4

Num(n) == <<2 * n, 0>>
Add(a, b) == <<a[1] + b[1], a[2] + b[2]>>
Sub(a, b) == <<a[1] - b[1], a[2] - b[2]>>
Scale(a, n) == <<a[1] * n, a[2] * n>>

\* The sign of p + q*sqrt(3), for integers p and q.
Sign(p, q) ==
    IF p = 0 /\ q = 0 THEN 0
    ELSE IF p >= 0 /\ q >= 0 THEN 1
    ELSE IF p <= 0 /\ q <= 0 THEN -1
    ELSE IF p > 0 THEN (IF p * p > 3 * q * q THEN 1 ELSE -1)
    ELSE (IF 3 * q * q > p * p THEN 1 ELSE -1)

\* math.cos(math.radians(deg)) for deg a multiple of 30.
Cos(deg) ==
    CASE deg % 360 = 0 -> <<2, 0>>
      [] deg % 360 \in {30, 330} -> <<0, 1>>
      [] deg % 360 \in {60, 300} -> <<1, 0>>
      [] deg % 360 \in {90, 270} -> <<0, 0>>
      [] deg % 360 \in {120, 240} -> <<-1, 0>>
      [] deg % 360 \in {150, 210} -> <<0, -1>>
      [] deg % 360 = 180 -> <<-2, 0>>

\* math.sin(math.radians(deg)) for deg a multiple of 30.
Sin(deg) == Cos(deg + 270)

\* math.isclose(a, b, abs_tol=0.00001): |a - b| <= abs_tol (the relative
\* tolerance 1e-9 is below abs_tol for every |a|, |b| < 10000 units).
isclose(a, b) ==
    LET d == Sub(a, b)
    IN  /\ Sign(d[1] - 2 * AbsTol, d[2]) <= 0
        /\ Sign(d[1] + 2 * AbsTol, d[2]) >= 0

\* in_accumulator as it would be with `or` between the two coordinate tests.
in_accumulator_or(x, y, acc) ==
    \E k \in 1..Len(acc) : isclose(acc[k][1], x) \/ isclose(acc[k][2], y)

\* in_accumulator(x, y, accumulator)
in_accumulator(x, y, acc) ==
    \E k \in 1..Len(acc) : isclose(acc[k][1], x) /\ isclose(acc[k][2], y)

\* How (ax - bx)^2 + (ay - by)^2 compares with d^2: -1, 0 or 1.
CompareDistance(a, b, d) ==
    LET dx == Sub(a[1], b[1])
        dy == Sub(a[2], b[2])
    IN  IF d < 0 THEN 1
        ELSE Sign(dx[1] * dx[1] + 3 * dx[2] * dx[2] + dy[1] * dy[1] + 3 * dy[2] * dy[2]
                    - 4 * d * d,
                  2 * (dx[1] * dx[2] + dy[1] * dy[2]))

\* The outcomes of `line_length <= distance`, line_length being measured from
\* the origin instead of from (x, y).
line_length_from_origin(new, a) ==
    LET c == CompareDistance(new, <<Num(0), Num(0)>>, a.distance)
    IN  IF c < 0 THEN {TRUE} ELSE IF c > 0 THEN {FALSE} ELSE {TRUE, FALSE}

\* The outcomes of `line_length <= distance` for the candidate `new`, with
\* line_length = sqrt((new_x - x)^2 + (new_y - y)^2).  When the two sides are
\* equal as reals the rounding of the sums, the squares and the square root
\* decides, so both outcomes are possible.
line_length_within(new, a) ==
    LET c == CompareDistance(new, <<a.x, a.y>>, a.distance)
    IN  IF c < 0 THEN {TRUE} ELSE IF c > 0 THEN {FALSE} ELSE {TRUE, FALSE}

\* (new_x, new_y) for direction index k from the point p.
Candidate(p, k, a) ==
    <<Add(p[1], Scale(Cos(k * 60 + a.angle_degrees), a.spacing)),
      Add(p[2], Scale(Sin(k * 60 + a.angle_degrees), a.spacing))>>

\* The calls made: the seed is the card's front centre or any other point, the
\* angle is 30 + self.angle.
Seeds == {<<0, 0>>, <<1, -1>>}
Spacings == 1..MaxSpacing
Distances == 0..MaxDistance
Angles == {30, 60}

GridInit ==
    /\ \E s \in Seeds, sp \in Spacings, d \in Distances, ang \in Angles :
            args = [x |-> Num(s[1]), y |-> Num(s[2]), spacing |-> sp,
                    distance |-> d, angle_degrees |-> ang]
    /\ accumulator = <<>>
    /\ queue = <<>>
    /\ current = <<>>
    /\ i = 0
    /\ pc = "start"
    /\ heap = <<>>
    /\ last = NoCall
    /\ GeoIdle

\* accumulator = [(x, y)]; queue = [(x, y)]
Start ==
    /\ pc = "start"
    /\ accumulator' = <<(<<args.x, args.y>>)>>
    /\ queue' = <<(<<args.x, args.y>>)>>
    /\ pc' = "while"
    /\ UNCHANGED <<args, current, i>>

\* while queue: current_x, current_y = queue.pop(0), left as it would be if the
\* head were read without being removed.
Pop_keep_head ==
    /\ pc = "while"
    /\ queue # <<>>
    /\ current' = Head(queue)
    /\ i' = 0
    /\ pc' = "for"
    /\ UNCHANGED <<args, accumulator, queue>>

\* while queue: current_x, current_y = queue.pop(0)
Pop ==
    /\ pc = "while"
    /\ queue # <<>>
    /\ current' = Head(queue)
    /\ queue' = Tail(queue)
    /\ i' = 0
    /\ pc' = "for"
    /\ UNCHANGED <<args, accumulator>>

\* One pass of `for i in range(6)`: the candidate is appended to both lists when
\* it is within distance and not in the accumulator.
Step ==
    /\ pc = "for"
    /\ LET new == Candidate(current, i, args)
       IN  \E within \in line_length_within(new, args) :
                IF within /\ ~in_accumulator(new[1], new[2], accumulator)
                THEN /\ accumulator' = Append(accumulator, new)
                     /\ queue' = Append(queue, new)
                ELSE UNCHANGED <<accumulator, queue>>
    /\ i' = i + 1
    /\ pc' = IF i + 1 < 6 THEN "for" ELSE "while"
    /\ UNCHANGED <<args, current>>

\* The queue is empty: return accumulator.
Return ==
    /\ pc = "while"
    /\ queue = <<>>
    /\ pc' = "done"
    /\ UNCHANGED <<args, accumulator, queue, current, i>>

GridNext ==
    \/ Start /\ UNCHANGED <<treeVars, geoVars>>
    \/ Pop /\ UNCHANGED <<treeVars, geoVars>>
    \/ Step /\ UNCHANGED <<treeVars, geoVars>>
    \/ Return /\ UNCHANGED <<treeVars, geoVars>>

GridSpec == GridInit /\ [][GridNext]_vars

\* The loop is sequential code: a step that can be taken is taken.
FairGridSpec == GridSpec /\ WF_vars(GridNext)

(***************************************************************************)
(* Properties of the lattice sampler.                                      *)
(***************************************************************************)
\* Whether the point p is at most args.distance from the seed, as reals.
WithinBound(p) == CompareDistance(p, <<args.x, args.y>>, args.distance) <= 0

\* C5: at every step of the loop every point of the accumulator and of the
\* work queue is at Euclidean distance at most `distance` from the seed, and
\* the seed is the first point of the accumulator.
C5_PointsWithinBound ==
    pc \in {"while", "for", "done"} =>
        /\ accumulator[1] = <<args.x, args.y>>
        /\ \A k \in 1..Len(accumulator) : WithinBound(accumulator[k])
        /\ \A k \in 1..Len(queue) : WithinBound(queue[k])

\* C5 witness: a call from a seed off the origin has returned more points than
\* the seed.
C5_Witness ==
    /\ pc = "done"
    /\ args.x # Num(0)
    /\ Len(accumulator) > 6

\* The lattice of the call: the seed plus the integer combinations of the
\* steps in directions angle_degrees and angle_degrees + 60 (the other four
\* directions are combinations of these two).  A point a*e0 + b*e1 within
\* `distance` has |a|, |b| <= 2 * distance / spacing.
LatticeIndex ==
    LET n == (2 * args.distance) \div args.spacing + 1
    IN  (0 - n)..n

LatticePoint(a, b) ==
    LET e0 == Candidate(<<Num(0), Num(0)>>, 0, args)
        e1 == Candidate(<<Num(0), Num(0)>>, 1, args)
    IN  <<Add(args.x, Add(Scale(e0[1], a), Scale(e1[1], b))),
          Add(args.y, Add(Scale(e0[2], a), Scale(e1[2], b)))>>

\* The lattice points whose distance from the seed compares to `distance` as
\* one of cmp: closed-form, spacing^2 (a^2 + ab + b^2) against distance^2.
LatticeIn(cmp) ==
    {LatticePoint(ab[1], ab[2]) : ab \in
        {ab \in LatticeIndex \X LatticeIndex :
            LET n == args.spacing * args.spacing
                        * (ab[1] * ab[1] + ab[1] * ab[2] + ab[2] * ab[2])
                d == args.distance * args.distance
            IN  (IF n < d THEN -1 ELSE IF n = d THEN 0 ELSE 1) \in cmp}}

\* No two points returned are within the tolerance of each other.
NoNearDuplicates ==
    \A j, k \in 1..Len(accumulator) :
        j # k => ~(/\ isclose(accumulator[j][1], accumulator[k][1])
                   /\ isclose(accumulator[j][2], accumulator[k][2]))

\* The spacing is above the scale of the tolerance (spacing > sqrt(2) * abs_tol):
\* points of the lattice are further apart than the tolerance merges.
SpacingAboveTolerance == args.spacing * args.spacing > 2 * AbsTol * AbsTol

QueueIsSuffix ==
    /\ Len(queue) <= Len(accumulator)
    /\ queue = SubSeq(accumulator, Len(accumulator) - Len(queue) + 1, Len(accumulator))

\* No point is in the accumulator (so none was enqueued) twice.
EnqueuedOnce ==
    \A j, k \in 1..Len(accumulator) : j # k => accumulator[j] # accumulator[k]

\* More points than the call can accumulate: the lattice points of the hexagon
\* that contains the disc of radius `distance`.
PointBound ==
    LET n == (2 * args.distance) \div args.spacing + 1
    IN  1 + 3 * n * (n + 1)

\* The steps the loop can still take, at most: seven for each point that is
\* queued or may still be accumulated, and the rest of the current pass.
Rank ==
    CASE pc = "start" -> 7 * PointBound + 2
      [] pc = "while" -> 7 * (PointBound - Len(accumulator) + Len(queue)) + 1
      [] pc = "for" -> 7 * (PointBound - Len(accumulator) + Len(queue)) + 7 - i
      [] pc = "done" -> 0

\* The call has a step to take: Start, then Pop or Return at the loop head,
\* and Step once for each of the six directions.
CanStep ==
    \/ pc \in {"start", "while"}
    \/ /\ pc = "for"
       /\ i \in 0..5
       /\ line_length_within(Candidate(current, i, args), args) # {}

\* C7: every point is enqueued at most once, when it is first accumulated;
\* every step of the loop brings the end nearer (Rank is a natural number that
\* each step lowers) and the loop always has a step to take until it returns,
\* so the queue empties and the accumulator is returned.
C7_Terminates ==
    /\ [][Rank' < Rank]_vars
    /\ [](/\ Rank >= 0
          /\ QueueIsSuffix
          /\ EnqueuedOnce
          /\ pc # "done" => CanStep
          /\ pc = "done" => queue = <<>>)

\* C7 witness: the call returned after enqueueing and dequeueing more points
\* than the seed.
C7_Witness ==
    /\ pc = "done"
    /\ queue = <<>>
    /\ Len(accumulator) > 12
    /\ Rank = 0


(***************************************************************************)
(* elongated_hexagon.  Lengths are in units of 0.1, the margin the fix     *)
(* adds.  tan(30 degrees) is 1/sqrt(3), so every number of the function is *)
(* (p + q*sqrt(3))/6 for integers p, q, written <<p, q>>.                  *)
(***************************************************************************)
\* The 0.1 of `length = inset_distance * 2 + 0.1`, in the unit of the model.
FixMargin == 1
MaxLength == 4
MaxThickness == 4

Sixths(n) == <<6 * n, 0>>

\* a <= b
Leq(a, b) == Sign(a[1] - b[1], a[2] - b[2]) <= 0

\* What a call returns or raises.
Returned(value) == [raised |-> "none", value |-> value]
Raised(error) == [raised |-> error, value |-> <<>>]

\* elongated_hexagon as it would be without the assert statement.
elongated_hexagon_unchecked(x, y, length, thickness, fix) ==
    LET inset_distance == <<0, thickness>>
        len == IF Leq(length, Scale(inset_distance, 2))
               THEN Add(Scale(inset_distance, 2), Sixths(FixMargin))
               ELSE length
        half == <<3 * thickness, 0>>
    IN  Returned(<< <<x, y>>,
                    <<Add(x, inset_distance), Sub(y, half)>>,
                    <<Sub(Add(x, len), inset_distance), Sub(y, half)>>,
                    <<Add(x, len), y>>,
                    <<Sub(Add(x, len), inset_distance), Add(y, half)>>,
                    <<Add(x, inset_distance), Add(y, half)>> >>)

\* elongated_hexagon(x, y, length, thickness, fix); thickness is a whole
\* number of units, x, y and length are numbers <<p, q>>.
elongated_hexagon(x, y, length, thickness, fix) ==
    LET inset_distance == <<0, thickness>>
        short == Leq(length, Scale(inset_distance, 2))
        len == IF short THEN Add(Scale(inset_distance, 2), Sixths(FixMargin))
               ELSE length
        half == <<3 * thickness, 0>>
    IN  IF short /\ ~fix THEN Raised("AssertionError")
        ELSE Returned(<< <<x, y>>,
                         <<Add(x, inset_distance), Sub(y, half)>>,
                         <<Sub(Add(x, len), inset_distance), Sub(y, half)>>,
                         <<Add(x, len), y>>,
                         <<Sub(Add(x, len), inset_distance), Add(y, half)>>,
                         <<Add(x, inset_distance), Add(y, half)>> >>)

\* The calls made: any corner, lengths and thicknesses of either sign.
Corners == {<<0, 0>>, <<2, -1>>}
Lengths == -1..MaxLength
Thicknesses == -1..MaxThickness

HexInit ==
    /\ \E c \in Corners, length \in Lengths, thickness \in Thicknesses,
          fix \in BOOLEAN :
            hexCall = [x |-> Sixths(c[1]), y |-> Sixths(c[2]),
                       length |-> Sixths(length), thickness |-> thickness,
                       fix |-> fix, pc |-> "call", result |-> Returned(<<>>)]
    /\ offsetCall = NoCall
    /\ angleCall = NoCall
    /\ CallsIdle
    /\ heap = <<>>
    /\ last = NoCall
    /\ GridIdle

\* The call runs to its return or to the failed assertion.
ElongatedHexagonCall ==
    /\ hexCall.pc = "call"
    /\ hexCall' = [hexCall EXCEPT
            !.pc = "done",
            !.result = elongated_hexagon(hexCall.x, hexCall.y, hexCall.length,
                                         hexCall.thickness, hexCall.fix)]
    /\ UNCHANGED <<treeVars, gridVars, offsetCall, angleCall, callVars>>

HexNext == ElongatedHexagonCall

HexSpec == HexInit /\ [][HexNext]_vars

(***************************************************************************)
(* Properties of elongated_hexagon.                                        *)
(***************************************************************************)
\* Twice the inset distance of a call: thickness / sqrt(3).
TwiceInset(a) == <<0, 2 * a.thickness>>

\* The six corners of the spoke of length len: the two tips on the axis, the
\* two long edges half a thickness above and below it, each an inset shorter
\* than the spoke at both ends.
IsSpoke(poly, a, len) ==
    LET half == <<3 * a.thickness, 0>>
        inset == <<0, a.thickness>>
    IN  /\ Len(poly) = 6
        /\ poly[1] = <<a.x, a.y>>
        /\ poly[4] = <<Add(a.x, len), a.y>>
        /\ poly[2][2] = Sub(a.y, half) /\ poly[3][2] = Sub(a.y, half)
        /\ poly[5][2] = Add(a.y, half) /\ poly[6][2] = Add(a.y, half)
        /\ Sub(poly[2][1], poly[1][1]) = inset
        /\ Sub(poly[4][1], poly[3][1]) = inset
        /\ poly[5][1] = poly[3][1]
        /\ poly[6][1] = poly[2][1]

\* C8: a call with length <= twice the inset raises without a polygon when fix
\* is not set; with fix set it returns the spoke of length twice the inset plus
\* 0.1, which is greater than twice the inset; a call with a greater length
\* returns the spoke of that length whatever fix is.
C8_LengthChecked ==
    hexCall.pc = "done" =>
        LET a == hexCall
            short == Leq(a.length, TwiceInset(a))
            raisedLength == <<6 * FixMargin, 2 * a.thickness>>
        IN  IF short /\ ~a.fix
            THEN a.result.raised = "AssertionError" /\ a.result.value = <<>>
            ELSE /\ a.result.raised = "none"
                 /\ IF short
                    THEN /\ ~Leq(raisedLength, TwiceInset(a))
                         /\ IsSpoke(a.result.value, a, raisedLength)
                    ELSE IsSpoke(a.result.value, a, a.length)

\* A call whose positive length is too short for its thickness was made with
\* fix set and returned a spoke longer than asked for.
C8_Witness ==
    /\ hexCall.pc = "done"
    /\ hexCall.fix
    /\ Sign(hexCall.length[1], hexCall.length[2]) > 0
    /\ Leq(hexCall.length, TwiceInset(hexCall))
    /\ hexCall.result.raised = "none"
    /\ hexCall.result.value[4] # <<Add(hexCall.x, hexCall.length), hexCall.y>>


(***************************************************************************)
(* Numbers of geo.py.  A number <<p, q, s>> is (p + q*sqrt(2))/2 * eps^s,  *)
(* where eps stands for a power of two so small (2^-60) that a value of a  *)
(* higher scale s is lost when added to a non-zero value of a lower scale, *)
(* as in 360 + eps = 360.  Values of one scale are added and multiplied    *)
(* exactly.  Angles are in degrees, also where the code holds radians.     *)
(***************************************************************************)
Fl(n) == <<2 * n, 0, 0>>

IsZero(a) == a[1] = 0 /\ a[2] = 0

Norm(p, q, s) == IF p = 0 /\ q = 0 THEN <<0, 0, 0>> ELSE <<p, q, s>>

\* a + b, rounded
fadd(a, b) ==
    IF IsZero(a) THEN b
    ELSE IF IsZero(b) THEN a
    ELSE IF a[3] < b[3] THEN a
    ELSE IF b[3] < a[3] THEN b
    ELSE Norm(a[1] + b[1], a[2] + b[2], a[3])

fneg(a) == <<-a[1], -a[2], a[3]>>

\* a - b, rounded
fsub(a, b) == fadd(a, fneg(b))

\* a * b
fmul(a, b) ==
    Norm((a[1] * b[1] + 2 * a[2] * b[2]) \div 2,
         (a[1] * b[2] + a[2] * b[1]) \div 2,
         a[3] + b[3])

\* a / b for b # 0, through the conjugate of b
fdiv(a, b) ==
    LET den == b[1] * b[1] - 2 * b[2] * b[2]
    IN  fmul(a, <<(4 * b[1]) \div den, (-4 * b[2]) \div den, -b[3]>>)

\* The sign of a: of p + q*sqrt(2).
fsign(a) ==
    LET p == a[1]
        q == a[2]
    IN  IF p = 0 /\ q = 0 THEN 0
        ELSE IF p >= 0 /\ q >= 0 THEN 1
        ELSE IF p <= 0 /\ q <= 0 THEN -1
        ELSE IF p > 0 THEN (IF p * p > 2 * q * q THEN 1 ELSE -1)
        ELSE (IF 2 * q * q > p * p THEN 1 ELSE -1)

\* math.degrees(math.atan2(y, x)), for y and x of which one outweighs the other
\* or which are equal in size: the multiples of 45 degrees and the angles too
\* small to tell from 0, of which the sign and the scale are kept.
Atan2(y, x) ==
    CASE IsZero(y) /\ IsZero(x) -> Fl(0)
      [] ~IsZero(y) /\ (IsZero(x) \/ y[3] < x[3]) -> Fl(90 * fsign(y))
      [] ~IsZero(x) /\ (IsZero(y) \/ x[3] < y[3]) ->
            IF fsign(x) > 0
            THEN (IF IsZero(y) THEN Fl(0) ELSE <<2 * fsign(y), 0, y[3] - x[3]>>)
            ELSE Fl(IF fsign(y) >= 0 THEN 180 ELSE -180)
      [] ~IsZero(y) /\ ~IsZero(x) /\ y[3] = x[3] /\ (y = x \/ y = fneg(x)) ->
            Fl(fsign(y) * (IF fsign(x) > 0 THEN 45 ELSE 135))

\* calculate_angle as it would be without the conversion to the [0, 360] range.
calculate_angle_signed(p1, p2, p3, use_360) ==
    LET vector1 == <<fsub(p1[1], p2[1]), fsub(p1[2], p2[2])>>
        vector2 == <<fsub(p3[1], p2[1]), fsub(p3[2], p2[2])>>
        dot_product == fadd(fmul(vector1[1], vector2[1]),
                            fmul(vector1[2], vector2[2]))
        cross_product == fsub(fmul(vector1[1], vector2[2]),
                              fmul(vector1[2], vector2[1]))
    IN  Atan2(cross_product, dot_product)

\* calculate_angle(p1, p2, p3, use_360)
calculate_angle(p1, p2, p3, use_360) ==
    LET vector1 == <<fsub(p1[1], p2[1]), fsub(p1[2], p2[2])>>
        vector2 == <<fsub(p3[1], p2[1]), fsub(p3[2], p2[2])>>
        dot_product == fadd(fmul(vector1[1], vector2[1]),
                            fmul(vector1[2], vector2[2]))
        cross_product == fsub(fmul(vector1[1], vector2[2]),
                              fmul(vector1[2], vector2[1]))
        angle_degrees == Atan2(cross_product, dot_product)
    IN  IF use_360 /\ fsign(angle_degrees) < 0
        THEN fadd(angle_degrees, Fl(360))
        ELSE angle_degrees

(***************************************************************************)
(* create_offset_polygon, on rings whose edges run along the axes between  *)
(* whole coordinates: the angles are multiples of 90 degrees, the bisectors *)
(* multiples of 45, and the sines and cosines are 0, 1 and sqrt(2)/2.      *)
(***************************************************************************)
MaxRing == 4
MaxOffset == 2

\* The whole number of degrees of an angle.
Degrees(a) == a[1] \div 2

\* math.sin of an angle that is a multiple of 45 degrees.
SinDeg(a) ==
    CASE Degrees(a) % 360 \in {0, 180} -> Fl(0)
      [] Degrees(a) % 360 \in {45, 135} -> <<0, 1, 0>>
      [] Degrees(a) % 360 = 90 -> Fl(1)
      [] Degrees(a) % 360 \in {225, 315} -> <<0, -1, 0>>
      [] Degrees(a) % 360 = 270 -> Fl(-1)

\* math.cos of an angle that is a multiple of 45 degrees.
CosDeg(a) == SinDeg(fadd(a, Fl(90)))

\* offset_point(p1, p2, p3, distance)
offset_point(p1, p2, p3, distance) ==
    LET angle == calculate_angle(p1, p2, p3, TRUE)
        bisect_angle == fmul(angle, <<1, 0, 0>>)
        sine == IF IsZero(bisect_angle) THEN Fl(0) ELSE SinDeg(bisect_angle)
    IN  IF IsZero(sine) THEN Raised("ZeroDivisionError")
        ELSE LET offset_distance == fdiv(distance, sine)
                 direction_angle ==
                     fadd(Atan2(fsub(p2[2], p1[2]), fsub(p2[1], p1[1])),
                          bisect_angle)
                 new_x == fadd(p2[1], fmul(offset_distance, CosDeg(direction_angle)))
                 new_y == fadd(p2[2], fmul(offset_distance, SinDeg(direction_angle)))
             IN  Returned(<<new_x, new_y>>)

\* coords without its last point when that repeats the first.
OpenCoords(coords) ==
    IF coords[1] = coords[Len(coords)]
    THEN SubSeq(coords, 1, Len(coords) - 1)
    ELSE coords

\* polygon_coord_windows as it would be with the for loop alone.
polygon_coord_windows_unwrapped(exterior) ==
    LET coords == OpenCoords(exterior)
    IN  [j \in 1..(Len(coords) - 2) |-> <<coords[j], coords[j + 1], coords[j + 2]>>]

\* polygon_coord_windows(polygon): the triples it yields, in order, for the
\* coordinates of polygon.exterior.
polygon_coord_windows(exterior) ==
    LET coords == OpenCoords(exterior)
        n == Len(coords)
    IN  <<(<<coords[n], coords[1], coords[2]>>)>>
        \o [j \in 1..(n - 2) |-> <<coords[j], coords[j + 1], coords[j + 2]>>]
        \o <<(<<coords[n - 1], coords[n], coords[1]>>)>>

\* The polygons offset: every closed ring of 3 to MaxRing vertices on a 3 by 3
\* grid whose edges, the closing one too, run along an axis.  Vertices may
\* repeat and edges may fold back, as shapely's Polygon allows.
RingCoords == {0, 1, 2}
RingPoints == {<<Fl(x), Fl(y)>> : x \in RingCoords, y \in RingCoords}
AlongAxis(a, b) == a[1] = b[1] \/ a[2] = b[2]
Rings ==
    UNION {{r \in [1..n -> RingPoints] :
                /\ r[n] # r[1]
                /\ AlongAxis(r[n], r[1])
                /\ \A j \in 1..(n - 1) : AlongAxis(r[j], r[j + 1])}
           : n \in 3..MaxRing}
Offsets == -1..MaxOffset

OffsetInit ==
    /\ \E r \in Rings, d \in Offsets :
            offsetCall = [exterior |-> r \o <<r[1]>>, distance |-> Fl(d),
                          pc |-> "for", seen |-> <<>>, new_coords |-> <<>>]
    /\ hexCall = NoCall
    /\ angleCall = NoCall
    /\ CallsIdle
    /\ heap = <<>>
    /\ last = NoCall
    /\ GridIdle

\* One pass of `for p1, p2, p3 in polygon_coord_windows(polygon)`: the offset
\* point is appended, or p2 after a ZeroDivisionError; any other error leaves
\* the function.
OffsetPass ==
    /\ offsetCall.pc = "for"
    /\ LET windows == polygon_coord_windows(offsetCall.exterior)
           k == Len(offsetCall.seen) + 1
       IN  /\ k <= Len(windows)
           /\ LET w == windows[k]
                  r == offset_point(w[1], w[2], w[3], offsetCall.distance)
              IN  offsetCall' = [offsetCall EXCEPT
                      !.seen = Append(@, w),
                      !.new_coords = IF r.raised = "none" THEN Append(@, r.value)
                                     ELSE IF r.raised = "ZeroDivisionError"
                                     THEN Append(@, w[2])
                                     ELSE @,
                      !.pc = IF r.raised \in {"none", "ZeroDivisionError"}
                             THEN "for" ELSE "raised"]
    /\ UNCHANGED <<treeVars, gridVars, hexCall, angleCall, callVars>>

\* The generator is exhausted: return Polygon(new_coords).
OffsetReturn ==
    /\ offsetCall.pc = "for"
    /\ Len(offsetCall.seen) = Len(polygon_coord_windows(offsetCall.exterior))
    /\ offsetCall' = [offsetCall EXCEPT !.pc = "done"]
    /\ UNCHANGED <<treeVars, gridVars, hexCall, angleCall, callVars>>

OffsetNext ==
    \/ OffsetPass
    \/ OffsetReturn

OffsetSpec == OffsetInit /\ [][OffsetNext]_vars

(***************************************************************************)
(* Properties of create_offset_polygon.                                    *)
(***************************************************************************)
\* The vertices of the ring being offset: the exterior without its closing
\* point.
RingOf(call) == SubSeq(call.exterior, 1, Len(call.exterior) - 1)

\* The whole number a coordinate stands for.
Whole(a) == a[1] \div 2

IsWhole(a) == a[2] = 0 /\ a[3] = 0 /\ a[1] % 2 = 0

\* b - a, in whole numbers.
Vector(a, b) == <<Whole(b[1]) - Whole(a[1]), Whole(b[2]) - Whole(a[2])>>

Sgn(n) == IF n > 0 THEN 1 ELSE IF n < 0 THEN -1 ELSE 0

\* The sine of the half angle at w[2] is zero: the rays to the two neighbours
\* coincide, or a neighbour lies on the vertex.
HalfAngleSineZero(w) ==
    LET u == Vector(w[2], w[1])
        v == Vector(w[2], w[3])
    IN  /\ u[1] * v[2] - u[2] * v[1] = 0
        /\ u[1] * v[1] + u[2] * v[2] >= 0

\* t, measured from a vertex, lies d to the left of the line through the
\* vertex that runs the way of the edge e.
LeftOf(t, e, d) == Sgn(e[1]) * t[2] - Sgn(e[2]) * t[1] = d

\* q is the miter point of the window w: d to the left of both edges at w[2]
\* and, where the edges run on in one line, straight across from w[2].
IsMiter(q, w, d) ==
    LET e == Vector(w[1], w[2])
        f == Vector(w[2], w[3])
        t == Vector(w[2], q)
    IN  /\ IsWhole(q[1]) /\ IsWhole(q[2])
        /\ LeftOf(t, e, d)
        /\ LeftOf(t, f, d)
        /\ (Sgn(e[1]) = Sgn(f[1]) /\ Sgn(e[2]) = Sgn(f[2]))
                => Sgn(e[1]) * t[1] + Sgn(e[2]) * t[2] = 0

\* C9: the passes of create_offset_polygon take the vertices of the ring once
\* each in ring order, each with its cyclic predecessor and successor, and
\* append one vertex per pass: the vertex itself where the sine of the half
\* angle is zero, its miter point elsewhere; no error leaves the function and
\* the polygon returned has as many vertices as the ring.
C9_OneVertexPerVertex ==
    LET ring == RingOf(offsetCall)
        n == Len(ring)
        seen == offsetCall.seen
        out == offsetCall.new_coords
    IN  /\ offsetCall.pc # "raised"
        /\ Len(seen) <= n
        /\ Len(out) = Len(seen)
        /\ offsetCall.pc = "done" => Len(out) = n
        /\ \A j \in 1..Len(seen) :
            /\ seen[j] = <<ring[IF j = 1 THEN n ELSE j - 1], ring[j],
                           ring[IF j = n THEN 1 ELSE j + 1]>>
            /\ IF HalfAngleSineZero(seen[j])
               THEN out[j] = ring[j]
               ELSE IsMiter(out[j], seen[j], Whole(offsetCall.distance))

\* A ring of at least three vertices has been offset by a distance other than
\* zero: one vertex was kept where it was because the division failed, and a
\* later one was moved.
C9_Witness ==
    /\ offsetCall.pc = "done"
    /\ Len(offsetCall.new_coords) >= 3
    /\ offsetCall.distance # Fl(0)
    /\ \E j, k \in 1..Len(offsetCall.new_coords) :
            /\ j < k
            /\ HalfAngleSineZero(offsetCall.seen[j])
            /\ offsetCall.new_coords[j] = RingOf(offsetCall)[j]
            /\ ~HalfAngleSineZero(offsetCall.seen[k])
            /\ offsetCall.new_coords[k] # RingOf(offsetCall)[k]

(***************************************************************************)
(* calculate_angle, on points whose coordinates are small whole numbers or *)
(* plus or minus eps, the size of the rounding noise a rotation leaves in  *)
(* a coordinate that should be zero.                                       *)
(***************************************************************************)
MaxCoord == 2

Eps == <<2, 0, 1>>

Floats == {Fl(n) : n \in (-MaxCoord)..MaxCoord} \cup {Eps, fneg(Eps)}
Points == {<<x, y>> : x \in Floats, y \in Floats}
Vertices == {<<Fl(0), Fl(0)>>, <<Fl(1), Fl(-1)>>, <<Eps, Fl(0)>>}

\* The part of the vector from a to b that decides its direction: a component
\* of a higher scale than the other is left out.
Leading(a, b) ==
    LET x == fsub(b[1], a[1])
        y == fsub(b[2], a[2])
    IN  IF IsZero(x) \/ IsZero(y) \/ x[3] = y[3] THEN <<x, y>>
        ELSE IF x[3] < y[3] THEN <<x, Fl(0)>>
        ELSE <<Fl(0), y>>

\* The vector from a to b points, to within rounding, in one of the eight
\* compass directions.
Compass(a, b) ==
    LET v == Leading(a, b)
    IN  /\ ~(IsZero(v[1]) /\ IsZero(v[2]))
        /\ IsZero(v[1]) \/ IsZero(v[2]) \/ v[1] = v[2] \/ v[1] = fneg(v[2])

AngleInit ==
    /\ \E p1 \in Points, p2 \in Vertices, p3 \in Points, use_360 \in BOOLEAN :
            /\ Compass(p2, p1)
            /\ Compass(p2, p3)
            /\ angleCall = [p1 |-> p1, p2 |-> p2, p3 |-> p3, use_360 |-> use_360,
                            pc |-> "call", result |-> Fl(0)]
    /\ hexCall = NoCall
    /\ offsetCall = NoCall
    /\ CallsIdle
    /\ heap = <<>>
    /\ last = NoCall
    /\ GridIdle

\* The call runs to its return.
CalculateAngleCall ==
    /\ angleCall.pc = "call"
    /\ angleCall' = [angleCall EXCEPT
            !.pc = "done",
            !.result = calculate_angle(angleCall.p1, angleCall.p2, angleCall.p3,
                                       angleCall.use_360)]
    /\ UNCHANGED <<treeVars, gridVars, hexCall, offsetCall, callVars>>

AngleNext == CalculateAngleCall

AngleSpec == AngleInit /\ [][AngleNext]_vars

(***************************************************************************)
(* Properties of calculate_angle.                                          *)
(***************************************************************************)
\* The compass direction of the vector from a to b, counted counter-clockwise
\* in steps of 45 degrees from the positive x axis.
Direction(a, b) ==
    LET v == Leading(a, b)
        d == <<fsign(v[1]), fsign(v[2])>>
    IN  CASE d = <<1, 0>> -> 0
          [] d = <<1, 1>> -> 1
          [] d = <<0, 1>> -> 2
          [] d = <<-1, 1>> -> 3
          [] d = <<-1, 0>> -> 4
          [] d = <<-1, -1>> -> 5
          [] d = <<0, -1>> -> 6
          [] d = <<1, -1>> -> 7

\* The counter-clockwise angle from the ray p2->p1 to the ray p2->p3, in whole
\* degrees, to within rounding.
CounterClockwise(call) ==
    45 * ((Direction(call.p2, call.p3) - Direction(call.p2, call.p1)) % 8)

\* The value is one of a scale below the whole numbers.
Tiny(r) == ~IsZero(r) /\ r[3] > 0

\* C10 as stated: with use_360 the value returned is the counter-clockwise
\* angle from the ray p2->p1 to the ray p2->p3 and lies in [0, 360): never
\* negative and never 360.
C10_HalfOpenRange ==
    (angleCall.pc = "done" /\ angleCall.use_360) =>
        LET r == angleCall.result
        IN  /\ fsign(r) >= 0
            /\ Tiny(r) \/ r[1] < 2 * 360
            /\ CounterClockwise(angleCall) # 0
                    => r = Fl(CounterClockwise(angleCall))
            /\ CounterClockwise(angleCall) = 0
                    => IsZero(r) \/ Tiny(r)

\* C10 as amended: with use_360 the value returned is the counter-clockwise
\* angle from the ray p2->p1 to the ray p2->p3 to within rounding and lies in
\* [0, 360]: it is never negative, a multiple of 45 between 45 and 315 for
\* rays in different compass directions, and for rays that coincide to within
\* rounding it is 0, an angle too small to tell from 0, or 360.
C10_ClosedRange ==
    (angleCall.pc = "done" /\ angleCall.use_360) =>
        LET r == angleCall.result
        IN  /\ fsign(r) >= 0
            /\ Tiny(r) \/ r[1] <= 2 * 360
            /\ CounterClockwise(angleCall) # 0
                    => r = Fl(CounterClockwise(angleCall))
            /\ CounterClockwise(angleCall) = 0
                    => IsZero(r) \/ Tiny(r) \/ r = Fl(360)

\* A call with use_360 for p3 a rounding error clockwise of the ray p2->p1
\* has returned 360.
C10_Witness ==
    /\ angleCall.pc = "done"
    /\ angleCall.use_360
    /\ angleCall.p1 = <<Fl(1), Fl(0)>>
    /\ angleCall.p2 = <<Fl(0), Fl(0)>>
    /\ angleCall.p3 = <<Fl(1), fneg(Eps)>>
    /\ angleCall.result = Fl(360)

(***************************************************************************)
(* filled_polygon.  What offset_curve returns is up to the geometry        *)
(* library: whether the offset ring is empty is an input of every pass.    *)
(***************************************************************************)
\* breakout = 50
Breakout == 50

\* The callers pass pen_width or -pen_width; 0 never moves the offset.
PenWidths == {-1, 0, 1, 2}

\* The state of a call at `while True`, after group.add_polygon(polygon, 1,
\* "outer_polygon"), thickness_offset = 0 and breakout = 50.
FillInit ==
    /\ \E pen_width \in PenWidths :
            fillCall = [pen_width |-> pen_width,
                        group |-> [PolygonGroup("filled_polygon") EXCEPT
                            !.polygons = <<PolygonStoreEntry(1, "Polygon",
                                                             "outer_polygon")>>],
                        thickness_offset |-> 0,
                        breakout |-> Breakout,
                        pc |-> "while"]
    /\ drawCall = NoCall
    /\ branchCall = NoCall
    /\ starCall = NoCall
    /\ hexCall = NoCall
    /\ offsetCall = NoCall
    /\ angleCall = NoCall
    /\ heap = <<>>
    /\ last = NoCall
    /\ GridIdle

\* One pass of the loop as it would be with the error raised one pass later.
FillPass_late_cap ==
    /\ fillCall.pc = "while"
    /\ LET thickness_offset == fillCall.thickness_offset - fillCall.pen_width
       IN  \E is_empty \in BOOLEAN :
             IF is_empty
             THEN fillCall' = [fillCall EXCEPT
                        !.thickness_offset = thickness_offset,
                        !.pc = "done"]
             ELSE fillCall' = [fillCall EXCEPT
                        !.thickness_offset = thickness_offset,
                        !.group.polygons = Append(@,
                            PolygonStoreEntry(1, "Polygon",
                                <<"fill_polygon", thickness_offset>>)),
                        !.breakout = @ - 1,
                        !.pc = IF fillCall.breakout - 1 < -1 THEN "raised"
                               ELSE "while"]
    /\ UNCHANGED <<treeVars, gridVars, hexCall, offsetCall, angleCall,
                   drawCall, branchCall, starCall>>

\* One pass of `while True`: the offset moves by pen_width; an empty offset
\* ring breaks out and the group is returned; any other ring is added to the
\* group, breakout is counted down and ValueError is raised once it is below 0.
FillPass ==
    /\ fillCall.pc = "while"
    /\ LET thickness_offset == fillCall.thickness_offset - fillCall.pen_width
       IN  \E is_empty \in BOOLEAN :
             IF is_empty
             THEN fillCall' = [fillCall EXCEPT
                        !.thickness_offset = thickness_offset,
                        !.pc = "done"]
             ELSE fillCall' = [fillCall EXCEPT
                        !.thickness_offset = thickness_offset,
                        !.group.polygons = Append(@,
                            PolygonStoreEntry(1, "Polygon",
                                <<"fill_polygon", thickness_offset>>)),
                        !.breakout = @ - 1,
                        !.pc = IF fillCall.breakout - 1 < 0 THEN "raised"
                               ELSE "while"]
    /\ UNCHANGED <<treeVars, gridVars, hexCall, offsetCall, angleCall,
                   drawCall, branchCall, starCall>>

FillNext == FillPass

FillSpec == FillInit /\ [][FillNext]_vars

(***************************************************************************)
(* Properties of filled_polygon.                                           *)
(***************************************************************************)
\* The fill rings of the group: its polygons but the outline.
FillRings(call) == Len(call.group.polygons) - 1

\* A pass ends the call when it adds no ring, and is one of at most
\* breakout + 1 passes left.
FillPassEnds ==
    /\ fillCall.pc = "while"
    /\ fillCall.breakout >= 0
    /\ FillRings(fillCall') = FillRings(fillCall) => fillCall'.pc = "done"
    /\ FillRings(fillCall') # FillRings(fillCall) =>
            /\ FillRings(fillCall') = FillRings(fillCall) + 1
            /\ fillCall'.breakout = fillCall.breakout - 1
            /\ fillCall'.pc \in {"while", "raised"}
            /\ fillCall'.pc = "while" => fillCall'.breakout >= 0

\* C11 as stated: every pass brings the loop nearer its end, a pass that is
\* told the ring is empty returns, the group never holds more than 50 fill
\* rings, and the call that would go beyond them raises.
C11_AtMostFiftyRings ==
    /\ [][FillPassEnds]_vars
    /\ [](FillRings(fillCall) <= Breakout)

\* C11 as amended: every pass brings the loop nearer its end, a pass that is
\* told the ring is empty returns, the group never holds more than 51 fill
\* rings, a group that is returned holds at most 50, and the error is raised
\* right after the 51st ring was added.
C11_AtMostFiftyOneRings ==
    /\ [][FillPassEnds]_vars
    /\ [](/\ FillRings(fillCall) <= Breakout + 1
          /\ fillCall.pc = "while" =>
                FillRings(fillCall) = Breakout - fillCall.breakout
          /\ fillCall.pc = "done" => FillRings(fillCall) <= Breakout
          /\ fillCall.pc = "raised" => FillRings(fillCall) = Breakout + 1)

\* Every ring was reported non-empty: the call has raised, and its group
\* holds 51 fill rings.
C11_Witness ==
    /\ fillCall.pc = "raised"
    /\ FillRings(fillCall) = Breakout + 1
    /\ fillCall.breakout = -1

(***************************************************************************)
(* draw_a_star.  A uniform draw is its lower end plus a whole number of    *)
(* Steps-th parts of its range.  The unit of length is chosen so that all  *)
(* the lengths are whole: snowflake_size is 30 * Steps units.              *)
(***************************************************************************)
Steps == 20

snowflake_size == 30 * Steps

\* The radius draw() asks for: snowflake_size in the lattice pass,
\* glitter_flakes_size = snowflake_size * 1.5 in the scatter pass.
Radii == {snowflake_size, (snowflake_size * 3) \div 2}

\* random(lo, hi) at the k-th of the Steps parts of its range; lo and hi are
\* multiples of Steps.
Uniform(lo, hi, k) == (lo * Steps + (hi - lo) * k) \div Steps

\* The first error of a sequence of calls, or the last value returned.
FirstRaised(results) ==
    IF \E k \in 1..Len(results) : results[k].raised # "none"
    THEN results[CHOOSE k \in 1..Len(results) :
                    /\ results[k].raised # "none"
                    /\ \A j \in 1..(k - 1) : results[j].raised = "none"]
    ELSE results[Len(results)]

\* hexagon_star(x, y, radius, thickness): six equal calls of elongated_hexagon,
\* rotated and united.
hexagon_star(x, y, radius, thickness) ==
    LET spoke == elongated_hexagon(Sixths(x), Sixths(y), Sixths(radius),
                                   thickness, FALSE)
    IN  IF spoke.raised # "none" THEN spoke ELSE Returned("Polygon")

\* hexagon_star_with_sector_ends(x, y, radius, thickness, sector_offset,
\* sector_width): the star, then six equal sector ends, united.
hexagon_star_with_sector_ends(x, y, radius, thickness, sector_offset, sector_width) ==
    LET star == hexagon_star(x, y, radius, thickness)
        sector == elongated_hexagon(Sixths(x + sector_offset), Sixths(y),
                                    Sixths(radius - sector_offset),
                                    thickness + sector_width, FALSE)
    IN  FirstRaised(<<star, sector, Returned("Polygon")>>)

\* draw_a_star(x, y, radius, random) for a draw above dendrite_proportion (a
\* star) or not (a dendrite), and the draws kt, ko, kw of the star's thickness
\* factor, sector_offset and sector_width.
draw_a_star(x, y, radius, star, kt, ko, kw) ==
    IF star
    THEN hexagon_star_with_sector_ends(x, y, radius,
            \* snowflake_size * random(0.1, 0.3)
            Uniform(snowflake_size \div 10, (3 * snowflake_size) \div 10, kt),
            \* random(snowflake_size/3, (snowflake_size/3)*2)
            Uniform(snowflake_size \div 3, (2 * snowflake_size) \div 3, ko),
            \* random(0, snowflake_size/3)
            Uniform(0, snowflake_size \div 3, kw))
    ELSE Returned("MultiLineString")

StarInit ==
    /\ \E radius \in Radii, star \in BOOLEAN, kt, ko, kw \in 0..Steps :
            /\ ~star => kt = 0 /\ ko = 0 /\ kw = 0
            /\ starCall = [x |-> 0, y |-> 0, radius |-> radius, star |-> star,
                           kt |-> kt, ko |-> ko, kw |-> kw,
                           pc |-> "call", result |-> Returned(<<>>)]
    /\ fillCall = NoCall
    /\ drawCall = NoCall
    /\ branchCall = NoCall
    /\ hexCall = NoCall
    /\ offsetCall = NoCall
    /\ angleCall = NoCall
    /\ heap = <<>>
    /\ last = NoCall
    /\ GridIdle

\* The call runs to its return or to the failed assertion of a spoke.
DrawAStarCall ==
    /\ starCall.pc = "call"
    /\ starCall' = [starCall EXCEPT
            !.pc = "done",
            !.result = draw_a_star(starCall.x, starCall.y, starCall.radius,
                                   starCall.star, starCall.kt, starCall.ko,
                                   starCall.kw)]
    /\ UNCHANGED <<treeVars, gridVars, hexCall, offsetCall, angleCall,
                   fillCall, drawCall, branchCall>>

StarNext == DrawAStarCall

StarSpec == StarInit /\ [][StarNext]_vars

(***************************************************************************)
(* Properties of draw_a_star.                                              *)
(***************************************************************************)
\* C17: whatever the draws, a star of radius snowflake_size is built without
\* a failed assertion: the length of each sector end, radius - sector_offset,
\* is greater than tan(30 degrees) * (thickness + sector_width), and the
\* length of each spoke, radius, greater than tan(30 degrees) * thickness.
C17_SpokesLongEnough ==
    (starCall.pc = "done" /\ starCall.star /\ starCall.radius = snowflake_size)
        => LET thickness == 3 * Steps + 6 * starCall.kt
               sector_offset == 10 * Steps + 10 * starCall.ko
               sector_width == 10 * starCall.kw
               length == starCall.radius - sector_offset
           IN  /\ starCall.result.raised = "none"
               /\ 3 * length * length
                    > (thickness + sector_width) * (thickness + sector_width)
               /\ 3 * starCall.radius * starCall.radius > thickness * thickness

(***************************************************************************)
(* draw: the lattice pass, the scatter pass and sketch_group.draw.  Lengths *)
(* are in the unit of draw_a_star.  What shapely answers about containment *)
(* and what the random draws give are inputs of each pass of a loop; debug  *)
(* and page_divider are off.                                                *)
(***************************************************************************)
MaxGrid == 14
MaxStar == 2

\* glitter_flakes_size = self.snowflake_size * 1.5
glitter_flakes_size == (snowflake_size * 3) \div 2

\* Everything draw_a_star can do for a radius, over all its draws.
DrawAStarOutcomes(radius) ==
    {draw_a_star(0, 0, radius, star, kt, ko, kw) :
        star \in BOOLEAN, kt \in 0..Steps, ko \in 0..Steps, kw \in 0..Steps}

LatticeOutcomes == DrawAStarOutcomes(snowflake_size)
GlitterOutcomes == DrawAStarOutcomes(glitter_flakes_size)

\* perspective_by_angle(polygon, angle_degrees, distance): bounds is defined
\* for every geometry, exterior for a Polygon only.
perspective_by_angle(polygon) ==
    IF polygon = "Polygon" THEN Returned("Polygon")
    ELSE Raised("AttributeError")

\* any(math.hypot(used_x - x, used_y - y) < glitter_flakes_size * 3 ...), as
\* it would be if only the point used last were looked at.
too_close_to_last(x, y, used_points) ==
    /\ used_points # <<>>
    /\ LET u == used_points[Len(used_points)]
       IN  (u[1] - x) * (u[1] - x) + (u[2] - y) * (u[2] - y)
                < 9 * glitter_flakes_size * glitter_flakes_size

\* any(math.hypot(used_x - x, used_y - y) < glitter_flakes_size * 3
\*     for used_x, used_y in used_points)
too_close(x, y, used_points) ==
    \E k \in 1..Len(used_points) :
        LET u == used_points[k]
        IN  (u[1] - x) * (u[1] - x) + (u[2] - y) * (u[2] - y)
                < 9 * glitter_flakes_size * glitter_flakes_size

\* The grid points handed to the passes: rows of five points, grid_spacing =
\* 2 * snowflake_size apart (the defaults 5.6 and 2.8), so that points five
\* places apart in the list are neighbours, as in the list triangular_grid
\* returns.
GridPoint(k) ==
    <<2 * snowflake_size * ((k - 1) % 5), 2 * snowflake_size * ((k - 1) \div 5)>>

\* The state of draw at the first `for x, y in grid_points`: the first
\* `inside` grid points lie in the star outline.
DrawInit ==
    /\ \E inside \in 0..MaxStar :
            drawCall = [grid_points |-> [k \in 1..MaxGrid |-> GridPoint(k)],
                        inside |-> inside,
                        sketch_group |-> PolygonGroup("snowflake card"),
                        used_points |-> <<>>,
                        selector |-> -1,
                        k |-> 1,
                        handed |-> "none",
                        error |-> "none",
                        pc |-> "fill"]
    /\ fillCall = NoCall
    /\ branchCall = NoCall
    /\ starCall = NoCall
    /\ hexCall = NoCall
    /\ offsetCall = NoCall
    /\ angleCall = NoCall
    /\ heap = <<>>
    /\ last = NoCall
    /\ GridIdle

\* One pass of `for x, y in grid_points` (first, fill in the star outline):
\* an error of draw_a_star leaves draw.
LatticeFill ==
    /\ drawCall.pc = "fill"
    /\ drawCall.k <= Len(drawCall.grid_points)
    /\ LET p == drawCall.grid_points[drawCall.k]
       IN  IF drawCall.k <= drawCall.inside
           THEN \E star \in LatticeOutcomes :
                  IF star.raised # "none"
                  THEN drawCall' = [drawCall EXCEPT !.pc = "raised",
                                                    !.error = star.raised]
                  ELSE drawCall' = [drawCall EXCEPT
                        !.sketch_group.polygons = Append(@,
                            PolygonStoreEntry(2, star.value, <<"star", p[1], p[2]>>)),
                        !.used_points = Append(@, p),
                        !.k = @ + 1]
           ELSE drawCall' = [drawCall EXCEPT !.k = @ + 1]
    /\ UNCHANGED <<treeVars, gridVars, hexCall, offsetCall, angleCall,
                   fillCall, branchCall, starCall>>

\* selector = int(vsk.random(0, 4)), between the two loops.
DrawSelector ==
    /\ drawCall.pc = "fill"
    /\ drawCall.k > Len(drawCall.grid_points)
    /\ \E selector \in 0..3 :
            drawCall' = [drawCall EXCEPT !.selector = selector, !.k = 1,
                                         !.pc = "scatter"]
    /\ UNCHANGED <<treeVars, gridVars, hexCall, offsetCall, angleCall,
                   fillCall, branchCall, starCall>>

\* One pass of `for i, (grid_x, grid_y) in enumerate(grid_points)`.  x and y
\* are drawn at either end or in the middle of their ranges; in_field is
\* snowflake_field.contains(Point(x, y)), off_fold is `line.length >=
\* glitter_flakes_size * 2.0`, kept is `vsk.random(0, 1) <=
\* non_star_percentage / 100` and fits is the test of the rotated star against
\* the field and the credits box.  An error of draw_a_star or of
\* perspective_by_angle leaves draw.
Scatter ==
    /\ drawCall.pc = "scatter"
    /\ drawCall.k <= Len(drawCall.grid_points)
    /\ \E jx, jy \in {-1, 0, 1}, in_field, off_fold, kept, fits \in BOOLEAN :
        LET index == drawCall.k - 1
            x == drawCall.grid_points[drawCall.k][1] + jx * glitter_flakes_size
            y == drawCall.grid_points[drawCall.k][2] + jy * glitter_flakes_size
        IN  IF \/ ~in_field
               \/ ~off_fold
               \/ index % 5 # drawCall.selector
               \/ ~kept
               \/ too_close(x, y, drawCall.used_points)
            THEN drawCall' = [drawCall EXCEPT !.k = @ + 1]
            ELSE \E star \in GlitterOutcomes :
                  IF star.raised # "none"
                  THEN drawCall' = [drawCall EXCEPT !.pc = "raised",
                                                    !.error = star.raised]
                  ELSE LET perspective_star == perspective_by_angle(star.value)
                       IN  IF perspective_star.raised # "none"
                           THEN drawCall' = [drawCall EXCEPT
                                    !.handed = star.value,
                                    !.pc = "raised",
                                    !.error = perspective_star.raised]
                           ELSE IF fits
                           THEN drawCall' = [drawCall EXCEPT
                                    !.handed = star.value,
                                    !.sketch_group.polygons = Append(@,
                                        PolygonStoreEntry(3, perspective_star.value,
                                                          <<"star", x, y>>)),
                                    !.used_points = Append(@, <<x, y>>),
                                    !.k = @ + 1]
                           ELSE drawCall' = [drawCall EXCEPT
                                    !.handed = star.value,
                                    !.k = @ + 1]
    /\ UNCHANGED <<treeVars, gridVars, hexCall, offsetCall, angleCall,
                   fillCall, branchCall, starCall>>

\* sketch_group.draw(vsk), after the second loop.
Finalize ==
    /\ drawCall.pc = "scatter"
    /\ drawCall.k > Len(drawCall.grid_points)
    /\ drawCall' = [drawCall EXCEPT !.pc = "done"]
    /\ UNCHANGED <<treeVars, gridVars, hexCall, offsetCall, angleCall,
                   fillCall, branchCall, starCall>>

DrawNext ==
    \/ LatticeFill
    \/ DrawSelector
    \/ Scatter
    \/ Finalize

DrawSpec == DrawInit /\ [][DrawNext]_vars

\* draw runs on its own: a step that can be taken is taken.
FairDrawSpec == DrawSpec /\ WF_vars(DrawNext)

(***************************************************************************)
(* Properties of draw.                                                     *)
(***************************************************************************)
\* The centre a motif was inserted at: add_geom names it star_{x}_{y}.
Centre(entry) == <<entry.name[2], entry.name[3]>>

\* The square of the distance between two centres.
Distance2(a, b) == (a[1] - b[1]) * (a[1] - b[1]) + (a[2] - b[2]) * (a[2] - b[2])

\* The motifs of the scene graph, in the order of their insertion.
Inserted == drawCall.sketch_group.polygons

\* C12: a motif whose construction fails in the lattice pass or in the
\* scatter pass is skipped, the pass goes on and draw reaches
\* sketch_group.draw: a run of draw always ends with the scene graph drawn.
C12_ReachesFinalize == <>(drawCall.pc = "done")

\* C13: at every point of draw, every layer 3 motif in the scene graph lies
\* at least 3 * glitter_flakes_size from the centre of every motif inserted
\* before it, on layer 2 or on layer 3, and used_points holds the centres of
\* the inserted motifs and nothing else.
C13_ScatterKeepsDistance ==
    /\ \A k \in 1..Len(Inserted) :
          Inserted[k].layer = 3 =>
              \A j \in 1..(k - 1) :
                  Distance2(Centre(Inserted[k]), Centre(Inserted[j]))
                      >= 9 * glitter_flakes_size * glitter_flakes_size
    /\ drawCall.used_points = [k \in 1..Len(Inserted) |-> Centre(Inserted[k])]

\* The scatter pass has inserted a second motif on layer 3 after a motif of
\* the lattice pass, one of the two exactly 3 * glitter_flakes_size from a
\* motif before it.
C13_Witness ==
    /\ drawCall.pc = "done"
    /\ Len(Inserted) >= 3
    /\ Inserted[1].layer = 2
    /\ Inserted[Len(Inserted)].layer = 3
    /\ Inserted[Len(Inserted) - 1].layer = 3
    /\ \E k \in 2..Len(Inserted) : \E j \in 1..(k - 1) :
          Distance2(Centre(Inserted[k]), Centre(Inserted[j]))
              = 9 * glitter_flakes_size * glitter_flakes_size

\* C16: perspective_by_angle is never handed a geometry without an exterior
\* ring, so that a dendrite selected by draw_a_star never stops the scatter
\* pass.
C16_ProjectorGetsPolygons ==
    /\ drawCall.handed # "MultiLineString"
    /\ drawCall.error # "AttributeError"

(***************************************************************************)
(* random_branch_config.  Its numbers are binary floating-point numbers,   *)
(* <<m, e>> for m * 2^e with Precision significant bits (m = 0, or         *)
(* 2^(Precision - 1) <= |m| < 2^Precision); every operation rounds its     *)
(* exact result to the nearest such number, ties to the even one, as the   *)
(* operations of a Python float do with 53 bits.                           *)
(***************************************************************************)
Precision == 6

Exponents == -(2 * Precision)..(2 * Precision)

\* num / den as a pair of integers scaled by 2^-e.
Scaled(num, den, e) ==
    IF e >= 0 THEN <<num, den * 2^e>> ELSE <<num * 2^(-e), den>>

\* The exponent of num / den (num > 0, den > 0).
Exponent(num, den) ==
    CHOOSE e \in Exponents :
        LET nd == Scaled(num, den, e)
        IN  /\ 2^(Precision - 1) * nd[2] <= nd[1]
            /\ nd[1] < 2^Precision * nd[2]

\* q + r / d to the nearest integer, ties to the even one, with exponent e.
RoundQuotient(q, r, d, e) ==
    LET m == IF 2 * r > d \/ (2 * r = d /\ q % 2 = 1) THEN q + 1 ELSE q
    IN  IF m = 2^Precision THEN <<2^(Precision - 1), e + 1>> ELSE <<m, e>>

RoundScaled(nd, e) == RoundQuotient(nd[1] \div nd[2], nd[1] % nd[2], nd[2], e)

RoundAt(num, den, e) == RoundScaled(Scaled(num, den, e), e)

\* The floating-point number nearest to num / den (num >= 0, den > 0).
RoundRat(num, den) ==
    IF num = 0 THEN <<0, 0>> ELSE RoundAt(num, den, Exponent(num, den))

\* The number v with the sign of k, times 2^k2.
Signed(k, v, k2) ==
    IF v[1] = 0 THEN <<0, 0>>
    ELSE <<(IF k < 0 THEN -v[1] ELSE v[1]), v[2] + k2>>

Magnitude(k) == IF k < 0 THEN -k ELSE k

\* a and b as integers over the smaller of their exponents.
Aligned(a, b) ==
    LET e == IF a[2] < b[2] THEN a[2] ELSE b[2]
    IN  <<a[1] * 2^(a[2] - e), b[1] * 2^(b[2] - e), e>>

\* a + b, a - b, a * b, a / n and a * n of Python, n an int.
radd(a, b) ==
    IF a[1] = 0 THEN b
    ELSE IF b[1] = 0 THEN a
    ELSE LET ab == Aligned(a, b)
             sum == ab[1] + ab[2]
         IN  Signed(sum, RoundRat(Magnitude(sum), 1), ab[3])

rsub(a, b) == radd(a, <<-b[1], b[2]>>)

rmul(a, b) ==
    LET product == a[1] * b[1]
    IN  Signed(product, RoundRat(Magnitude(product), 1), a[2] + b[2])

rdiv(a, n) == Signed(a[1], RoundRat(Magnitude(a[1]), n), a[2])

\* a < b and min(a, b) of Python.
rless(a, b) ==
    IF a[1] = 0 THEN b[1] > 0
    ELSE IF b[1] = 0 THEN a[1] < 0
    ELSE LET ab == Aligned(a, b) IN ab[1] < ab[2]

rmin(a, b) == IF rless(b, a) THEN b ELSE a

\* The float literals of random_branch_config, the radii draw_a_star calls
\* it with (snowflake_size and glitter_flakes_size, 2.8 and 4.2) and the
\* thickness it passes.
Half == RoundRat(1, 2)
NineTenths == RoundRat(9, 10)
FiveSixths == rdiv(RoundRat(5, 1), 6)
BranchRadii == {RoundRat(28, 10), RoundRat(42, 10)}
BaseThickness == RoundRat(1, 10)

\* What random.random() returns in a + (b - a) * random(): a number in
\* [0, 1).  Unit has the least one, the greatest one and three between
\* them; Ends has the least and the greatest.
Ends == {<<0, 0>>, <<2^Precision - 1, -Precision>>}
Unit == Ends \cup {RoundRat(1, 4), RoundRat(1, 2), RoundRat(3, 4)}

\* random(a, b) of the sketch: uniform(a, b) = a + (b - a) * random().
random(a, b, u) == radd(a, rmul(rsub(b, a), u))

BranchConfig(offset, length, thickness) ==
    [offset |-> offset, length |-> length, thickness |-> thickness]

\* math.ceil(random(2, 4))
BranchCounts == 2..4

\* ((offset_end - offset_start) / number_of_branches) * branch + offset_start
BranchOffset(call, branch) ==
    radd(rmul(rdiv(rsub(call.offset_end, call.offset_start),
                   call.number_of_branches),
              RoundRat(branch, 1)),
         call.offset_start)

\* The generator up to its loop: fern_like, number_of_branches, offset_start
\* and offset_end are drawn; thickness is the argument.
BranchInit ==
    /\ \E radius \in BranchRadii, fern_like \in BOOLEAN,
          number_of_branches \in BranchCounts, us, ue \in Unit :
            branchCall = [radius |-> radius,
                          base |-> BaseThickness,
                          thickness |-> BaseThickness,
                          fern_like |-> fern_like,
                          number_of_branches |-> number_of_branches,
                          offset_start |-> random(rdiv(radius, 9),
                                                  rdiv(radius, 5), us),
                          offset_end |-> random(rmul(radius, NineTenths),
                                                radius, ue),
                          first_length |-> <<>>,
                          branch |-> 1,
                          yielded |-> <<>>,
                          pc |-> "for"]
    /\ fillCall = NoCall
    /\ drawCall = NoCall
    /\ starCall = NoCall
    /\ hexCall = NoCall
    /\ offsetCall = NoCall
    /\ angleCall = NoCall
    /\ heap = <<>>
    /\ last = NoCall
    /\ GridIdle

\* One pass of `for branch in range(1, number_of_branches+1)` up to its
\* yield; ul and ut are what random() gives for the length and for the
\* thickness, at either end of its range.
BranchPass ==
    /\ branchCall.pc = "for"
    /\ branchCall.branch <= branchCall.number_of_branches
    /\ \E ul, ut \in Ends :
        LET branch == branchCall.branch
            offset == BranchOffset(branchCall, branch)
            first_length == IF branchCall.fern_like /\ branchCall.first_length = <<>>
                            THEN offset ELSE branchCall.first_length
            this_branch_reduction ==
                rdiv(rmul(first_length, RoundRat(branch, 1)),
                     branchCall.number_of_branches)
            longest == rmin(offset, rsub(branchCall.radius, offset))
            length == IF branchCall.fern_like
                      THEN rsub(first_length,
                                random(rmul(this_branch_reduction, FiveSixths),
                                       this_branch_reduction, ul))
                      ELSE random(rdiv(longest, 2), longest, ul)
            thickness == random(rmul(branchCall.thickness, Half),
                                branchCall.thickness, ut)
        IN  branchCall' = [branchCall EXCEPT
                !.first_length = first_length,
                !.thickness = thickness,
                !.yielded = Append(@, BranchConfig(offset, length, thickness)),
                !.branch = @ + 1]
    /\ UNCHANGED <<treeVars, gridVars, hexCall, offsetCall, angleCall,
                   fillCall, drawCall, starCall>>

\* The loop is over: the generator is exhausted.
BranchReturn ==
    /\ branchCall.pc = "for"
    /\ branchCall.branch > branchCall.number_of_branches
    /\ branchCall' = [branchCall EXCEPT !.pc = "done"]
    /\ UNCHANGED <<treeVars, gridVars, hexCall, offsetCall, angleCall,
                   fillCall, drawCall, starCall>>

BranchNext ==
    \/ BranchPass
    \/ BranchReturn

BranchSpec == BranchInit /\ [][BranchNext]_vars

(***************************************************************************)
(* Properties of random_branch_config.                                     *)
(***************************************************************************)
\* a <= b
rleq(a, b) == ~rless(b, a)

\* C14: every BranchConfig yielded, at every branch index, has a thickness
\* between 0.5 * thickness and thickness, for the thickness the generator
\* was called with.
C14_ThicknessOfBase ==
    \A k \in 1..Len(branchCall.yielded) :
        /\ rleq(rmul(branchCall.base, Half), branchCall.yielded[k].thickness)
        /\ rleq(branchCall.yielded[k].thickness, branchCall.base)

\* C15: in fern-like mode the length of each branch is at most the length
\* of the branch before it, no length is negative and no length exceeds the
\* offset of the first branch.
C15_FernLengthsShrink ==
    branchCall.fern_like =>
        \A k \in 1..Len(branchCall.yielded) :
            /\ k > 1 => rleq(branchCall.yielded[k].length,
                             branchCall.yielded[k - 1].length)
            /\ rleq(<<0, 0>>, branchCall.yielded[k].length)
            /\ rleq(branchCall.yielded[k].length, branchCall.yielded[1].offset)

=============================================================================
